---- MODULE Spec2Model ----
(***************************************************************************)
(* WokTalk recipe playback: the zustand recipe store (store/recipeStore),  *)
(* the CookMode timer tick, the VoiceControl command interpreter and the   *)
(* YouTubePlayer loop controller, as one state machine.                    *)
(*                                                                         *)
(* Every event handler runs to completion (one JavaScript task), and the   *)
(* React render and effects it causes are part of the same step.           *)
(* Text is a sequence of UTF-16 code units.                                *)
(***************************************************************************)
EXTENDS Integers, Sequences, FiniteSets, TLC

(* ------------------------------ bounds --------------------------------- *)

\* Recipes have 1..MaxSteps steps.
MaxSteps == 3
\* startTimer is called with 0..MaxDur seconds.
MaxDur == 2
\* A recognized text is made of at most MaxWords words.
MaxWords == 3
\* Intervals of the loop monitor that are never cleared are counted up to here.
StrayCap == 1
\* The fields of a timestamp are 0..MaxField, and FieldsBeyond.
MaxField == 3
\* goToStep is called with indexes from -IndexSlack to MaxSteps-1+IndexSlack.
IndexSlack == 2
\* The tick and notification counters of the running timer saturate here.
CountCap == 4

(* ------------------------------ the store ------------------------------ *)

VARIABLES
  currentRecipe,     \* 0: null; n > 0: the loaded recipe, which has n steps
  currentStepIndex,
  mode,
  isTimerRunning,
  timerSeconds,
  isListening,
  language

storeVars == <<currentRecipe, currentStepIndex, mode, isTimerRunning,
               timerSeconds, isListening, language>>

\* The components of the cook view and the window they run in.
VARIABLES
  cook,        \* CookMode: its timer tick effect
  voice,       \* VoiceControl: its recognition object and pending callbacks
  yt           \* YouTubePlayer and the window: see YtInit

compVars == <<cook, voice, yt>>

\* What the last handler did.
VARIABLES
  lastOp,      \* the handler that ran last: [op, arg]
  spoken,      \* the utterances the last handler gave to speechSynthesis.speak
  thrown,      \* the last handler ended with an uncaught exception
  heard,       \* the text of the recognition result the last handler got
  matched,     \* what matchCommand returned in the last handler
  timerRun,    \* since the last startTimer(d): [d, ticks, chimes, clean]
  pollRun      \* since the loop monitor was scheduled: [hit, seeks]

histVars == <<lastOp, spoken, thrown, heard, matched, timerRun, pollRun>>

vars == <<storeVars, compVars, histVars>>

\* currentRecipe: null
NoRecipe == 0

\* currentRecipe.steps.length
StepsLength(recipe) == recipe

Languages == {"en", "hk"}
Modes == {"ingredients", "prep", "cook"}
Recipes == 1..MaxSteps
Durations == 0..MaxDur
GoToArgs == (0 - IndexSlack)..(MaxSteps - 1 + IndexSlack)

Min(a, b) == IF a < b THEN a ELSE b

\* The text and language of the utterance tickTimer speaks:
\* U+6642 U+9593 U+5230 U+5566 U+FF01, 'zh-HK'.
TimesUpUtterance ==
  [text |-> <<26178, 38291, 21040, 21862, 65281>>, lang |-> "zh-HK"]

Op(name, arg) == [op |-> name, arg |-> arg]

NoTimerRun == [d |-> 0, ticks |-> 0, chimes |-> 0, clean |-> FALSE]

(* Each store action is the state update `set` performs; the fields it does *)
(* not name keep their values.                                              *)

setRecipe(recipe) ==
  /\ currentRecipe' = recipe
  /\ currentStepIndex' = 0
  /\ UNCHANGED <<mode, isTimerRunning, timerSeconds, isListening, language>>

\* clearRecipe leaving the step index as it is.
clearRecipeKeepsIndex ==
  /\ currentRecipe' = NoRecipe
  /\ UNCHANGED <<currentStepIndex, mode, isTimerRunning, timerSeconds,
                 isListening, language>>

clearRecipe ==
  /\ currentRecipe' = NoRecipe
  /\ currentStepIndex' = 0
  /\ UNCHANGED <<mode, isTimerRunning, timerSeconds, isListening, language>>

setMode(m) ==
  /\ mode' = m
  /\ UNCHANGED <<currentRecipe, currentStepIndex, isTimerRunning, timerSeconds,
                 isListening, language>>

\* nextStep without the test against steps.length - 1.
nextStepUnbounded ==
  /\ currentStepIndex' =
       IF currentRecipe # NoRecipe THEN currentStepIndex + 1
       ELSE currentStepIndex
  /\ UNCHANGED <<currentRecipe, mode, isTimerRunning, timerSeconds,
                 isListening, language>>

\* nextStep wrapping around to the first step after the last.
nextStepWrapping ==
  /\ currentStepIndex' =
       IF currentRecipe = NoRecipe THEN currentStepIndex
       ELSE IF currentStepIndex < StepsLength(currentRecipe) - 1
       THEN currentStepIndex + 1
       ELSE 0
  /\ UNCHANGED <<currentRecipe, mode, isTimerRunning, timerSeconds,
                 isListening, language>>

\* nextStep doing nothing while the video is in its offline state.
nextStepOnlineOnly ==
  IF currentRecipe # NoRecipe /\ ~yt.isOffline
     /\ currentStepIndex < StepsLength(currentRecipe) - 1
  THEN /\ currentStepIndex' = currentStepIndex + 1
       /\ UNCHANGED <<currentRecipe, mode, isTimerRunning, timerSeconds,
                      isListening, language>>
  ELSE UNCHANGED storeVars

nextStep ==
  /\ currentStepIndex' =
       IF currentRecipe # NoRecipe
          /\ currentStepIndex < StepsLength(currentRecipe) - 1
       THEN currentStepIndex + 1
       ELSE currentStepIndex
  /\ UNCHANGED <<currentRecipe, mode, isTimerRunning, timerSeconds,
                 isListening, language>>

\* prevStep with the test currentStepIndex >= 0 in place of > 0.
prevStepOffByOne ==
  /\ currentStepIndex' =
       IF currentStepIndex >= 0 THEN currentStepIndex - 1 ELSE currentStepIndex
  /\ UNCHANGED <<currentRecipe, mode, isTimerRunning, timerSeconds,
                 isListening, language>>

\* prevStep stopping the timer when it leaves a step.
prevStepStopsTimer ==
  /\ currentStepIndex' =
       IF currentStepIndex > 0 THEN currentStepIndex - 1 ELSE currentStepIndex
  /\ isTimerRunning' = IF currentStepIndex > 0 THEN FALSE ELSE isTimerRunning
  /\ UNCHANGED <<currentRecipe, mode, timerSeconds, isListening, language>>

prevStep ==
  /\ currentStepIndex' =
       IF currentStepIndex > 0 THEN currentStepIndex - 1 ELSE currentStepIndex
  /\ UNCHANGED <<currentRecipe, mode, isTimerRunning, timerSeconds,
                 isListening, language>>

\* goToStep stopping the timer of the step it leaves.
goToStepStopsTimer(index) ==
  IF currentRecipe # NoRecipe /\ index >= 0 /\ index < StepsLength(currentRecipe)
  THEN /\ currentStepIndex' = index
       /\ isTimerRunning' = FALSE
       /\ UNCHANGED <<currentRecipe, mode, timerSeconds, isListening, language>>
  ELSE UNCHANGED storeVars

\* goToStep with the test index <= steps.length in place of <.
goToStepInclusive(index) ==
  /\ currentStepIndex' =
       IF currentRecipe # NoRecipe /\ index >= 0
          /\ index <= StepsLength(currentRecipe)
       THEN index
       ELSE currentStepIndex
  /\ UNCHANGED <<currentRecipe, mode, isTimerRunning, timerSeconds,
                 isListening, language>>

goToStep(index) ==
  /\ currentStepIndex' =
       IF currentRecipe # NoRecipe /\ index >= 0
          /\ index < StepsLength(currentRecipe)
       THEN index
       ELSE currentStepIndex
  /\ UNCHANGED <<currentRecipe, mode, isTimerRunning, timerSeconds,
                 isListening, language>>

startTimer(seconds) ==
  /\ timerSeconds' = seconds
  /\ isTimerRunning' = TRUE
  /\ UNCHANGED <<currentRecipe, currentStepIndex, mode, isListening, language>>

\* stopTimer putting the counter back to zero.
stopTimerResetting ==
  /\ isTimerRunning' = FALSE
  /\ timerSeconds' = 0
  /\ UNCHANGED <<currentRecipe, currentStepIndex, mode, isListening, language>>

stopTimer ==
  /\ isTimerRunning' = FALSE
  /\ UNCHANGED <<currentRecipe, currentStepIndex, mode, timerSeconds,
                 isListening, language>>

\* The branch of tickTimer that ends the countdown and speaks.
TimerDone == isTimerRunning /\ timerSeconds = 0

\* tickTimer counting down while running, whatever the counter.
tickTimerNoFloor ==
  /\ timerSeconds' = IF isTimerRunning THEN timerSeconds - 1 ELSE timerSeconds
  /\ isTimerRunning' = IF TimerDone THEN FALSE ELSE isTimerRunning
  /\ spoken' = IF TimerDone THEN <<TimesUpUtterance>> ELSE <<>>
  /\ UNCHANGED <<currentRecipe, currentStepIndex, mode, isListening, language>>

\* tickTimer speaking at zero whether the timer runs or not.
tickTimerChimesAtZero ==
  /\ timerSeconds' =
       IF isTimerRunning /\ timerSeconds > 0 THEN timerSeconds - 1
       ELSE timerSeconds
  /\ isTimerRunning' = IF TimerDone THEN FALSE ELSE isTimerRunning
  /\ spoken' = IF timerSeconds = 0 THEN <<TimesUpUtterance>> ELSE <<>>
  /\ UNCHANGED <<currentRecipe, currentStepIndex, mode, isListening, language>>

tickTimer ==
  /\ timerSeconds' =
       IF isTimerRunning /\ timerSeconds > 0 THEN timerSeconds - 1
       ELSE timerSeconds
  /\ isTimerRunning' = IF TimerDone THEN FALSE ELSE isTimerRunning
  /\ spoken' = IF TimerDone THEN <<TimesUpUtterance>> ELSE <<>>
  /\ UNCHANGED <<currentRecipe, currentStepIndex, mode, isListening, language>>

setListening(listening) ==
  /\ isListening' = listening
  /\ UNCHANGED <<currentRecipe, currentStepIndex, mode, isTimerRunning,
                 timerSeconds, language>>

setLanguage(lang) ==
  /\ language' = lang
  /\ UNCHANGED <<currentRecipe, currentStepIndex, mode, isTimerRunning,
                 timerSeconds, isListening>>

(* ------------------------ the command interpreter ---------------------- *)

\* COMMAND_PATTERNS, its keys in the order Object.entries gives them.
CommandOrder == <<"next", "prev", "repeat", "timer", "stop">>

CommandPatterns ==
  [next |-> <<
      <<19979, 19968, 27493>>,                      \* U+4E0B U+4E00 U+6B65
      <<19979, 19968, 20010>>,                      \* U+4E0B U+4E00 U+4E2A
      <<32380, 32396>>,                             \* U+7E7C U+7E8C
      <<32487, 32493>>,                             \* U+7EE7 U+7EED
      <<110, 101, 120, 116>>,                       \* 'next'
      <<99, 111, 110, 116, 105, 110, 117, 101>> >>, \* 'continue'
   prev |-> <<
      <<19978, 19968, 27493>>,                      \* U+4E0A U+4E00 U+6B65
      <<36820, 22238>>,                             \* U+8FD4 U+56DE
      <<21069, 19968, 27493>>,                      \* U+524D U+4E00 U+6B65
      <<112, 114, 101, 118, 105, 111, 117, 115>>,   \* 'previous'
      <<98, 97, 99, 107>> >>,                       \* 'back'
   repeat |-> <<
      <<37325, 35079>>,                             \* U+91CD U+8907
      <<37325, 22797>>,                             \* U+91CD U+590D
      <<20877, 35611>>,                             \* U+518D U+8B1B
      <<20877, 35828>>,                             \* U+518D U+8BF4
      <<114, 101, 112, 101, 97, 116>>,              \* 'repeat'
      <<97, 103, 97, 105, 110>> >>,                 \* 'again'
   timer |-> <<
      <<35336, 26178>>,                             \* U+8A08 U+6642
      <<35745, 26102>>,                             \* U+8BA1 U+65F6
      <<38283, 22987, 35336, 26178>>,               \* U+958B U+59CB U+8A08 U+6642
      <<116, 105, 109, 101, 114>>,                  \* 'timer'
      <<115, 116, 97, 114, 116, 32, 116, 105, 109, 101, 114>> >>, \* 'start timer'
   stop |-> <<
      <<20572, 27490>>,                             \* U+505C U+6B62
      <<26283, 20572>>,                             \* U+66AB U+505C
      <<20572>>,                                    \* U+505C
      <<115, 116, 111, 112>>,                       \* 'stop'
      <<112, 97, 117, 115, 101>> >>]                \* 'pause'

\* The value matchCommand returns for no match: null.
NullCommand == "null"

\* String.prototype.toLowerCase on one code unit: A-Z go to a-z; the other
\* code units of the texts modelled here have no lower-case form.
LowerUnit(c) == IF 65 <= c /\ c <= 90 THEN c + 32 ELSE c

ToLowerCase(s) == [i \in 1..Len(s) |-> LowerUnit(s[i])]

\* The code units String.prototype.trim removes (WhiteSpace and
\* LineTerminator of ECMAScript).
WhiteSpace ==
  {9, 10, 11, 12, 13, 32, 160, 5760, 8232, 8233, 8239, 8287, 12288, 65279}
    \cup (8192..8202)

RECURSIVE TrimStart(_)
TrimStart(s) ==
  IF s # <<>> /\ Head(s) \in WhiteSpace THEN TrimStart(Tail(s)) ELSE s

RECURSIVE TrimEnd(_)
TrimEnd(s) ==
  IF s # <<>> /\ s[Len(s)] \in WhiteSpace
  THEN TrimEnd(SubSeq(s, 1, Len(s) - 1))
  ELSE s

Trim(s) == TrimEnd(TrimStart(s))

\* String.prototype.includes
Includes(s, pattern) ==
  \E i \in 0..(Len(s) - Len(pattern)) : SubSeq(s, i + 1, i + Len(pattern)) = pattern

\* The two loops of matchCommand, from pattern k of the c-th command of
\* `order` on: the first pattern found in `normalized` decides.
RECURSIVE MatchFrom(_, _, _, _)
MatchFrom(normalized, order, c, k) ==
  IF c > Len(order) THEN NullCommand
  ELSE IF k > Len(CommandPatterns[order[c]])
       THEN MatchFrom(normalized, order, c + 1, 1)
       ELSE IF Includes(normalized, ToLowerCase(CommandPatterns[order[c]][k]))
            THEN order[c]
            ELSE MatchFrom(normalized, order, c, k + 1)

\* matchCommand going through the commands from the last to the first.
matchCommandReversed(text) ==
  MatchFrom(Trim(ToLowerCase(text)), <<"stop", "timer", "repeat", "prev", "next">>, 1, 1)

matchCommand(text) ==
  MatchFrom(Trim(ToLowerCase(text)), CommandOrder, 1, 1)

\* The words recognized texts are made of here:
\* 'please go ', 'next', 'go ', 'back', ' now', 'banana', 'Repeat', 'timer',
\* 'STOP', U+505C, U+4E0B U+4E00 U+6B65, ' '.
Words ==
  { <<112, 108, 101, 97, 115, 101, 32, 103, 111, 32>>,
    <<110, 101, 120, 116>>,
    <<103, 111, 32>>,
    <<98, 97, 99, 107>>,
    <<32, 110, 111, 119>>,
    <<98, 97, 110, 97, 110, 97>>,
    <<82, 101, 112, 101, 97, 116>>,
    <<116, 105, 109, 101, 114>>,
    <<83, 84, 79, 80>>,
    <<20572>>,
    <<19979, 19968, 27493>>,
    <<32>> }

RECURSIVE Phrases(_)
Phrases(n) ==
  IF n = 0 THEN {<<>>}
  ELSE Phrases(n - 1) \cup {p \o w : p \in Phrases(n - 1), w \in Words}

\* Every pattern of the table, alone.
PatternTexts ==
  UNION {{CommandPatterns[c][k] : k \in 1..Len(CommandPatterns[c])} :
           c \in DOMAIN CommandPatterns}

(* --------------------------- the recipe's steps ------------------------ *)

\* The decimal digits of n < 100, as text.
TwoDigits(n) == <<48 + (n \div 10), 48 + (n % 10)>>

\* seconds as "MM:SS"
MinSec(seconds) == TwoDigits(seconds \div 60) \o <<58>> \o TwoDigits(seconds % 60)

\* The recipes loaded here: step i (from 0) shows the ten seconds of video
\* from 10*i on, "00:00"-"00:10", "00:10"-"00:20", ...; every third step has
\* no end timestamp (the empty text).
StepTimestampStart(i) == MinSec(10 * i)
StepTimestampEnd(i) == IF i % 3 = 2 THEN <<>> ELSE MinSec(10 * (i + 1))

\* String.prototype.split(':')
RECURSIVE SplitColon(_, _)
SplitColon(s, part) ==
  IF s = <<>> THEN <<part>>
  ELSE IF Head(s) = 58 THEN <<part>> \o SplitColon(Tail(s), <<>>)
  ELSE SplitColon(Tail(s), Append(part, Head(s)))

\* Number(part), for a part made of decimal digits: its value, and 0 for
\* the empty part.
RECURSIVE ToNumber(_)
ToNumber(part) ==
  IF part = <<>> THEN 0
  ELSE 10 * ToNumber(SubSeq(part, 1, Len(part) - 1)) + (part[Len(part)] - 48)

\* parseTimestamp reading three parts as two.
parseTimestampTwoParts(timestamp) ==
  LET parts == SplitColon(timestamp, <<>>) IN
    IF Len(parts) \in {2, 3} THEN ToNumber(parts[1]) * 60 + ToNumber(parts[2])
    ELSE 0

parseTimestamp(timestamp) ==
  LET parts == SplitColon(timestamp, <<>>) IN
    IF Len(parts) = 2 THEN ToNumber(parts[1]) * 60 + ToNumber(parts[2])
    ELSE IF Len(parts) = 3
         THEN ToNumber(parts[1]) * 3600 + ToNumber(parts[2]) * 60 + ToNumber(parts[3])
         ELSE 0

\* startSeconds and endSeconds of YouTubePlayer: 0 for an absent (empty) text.
SecondsOf(timestamp) == IF timestamp # <<>> THEN parseTimestamp(timestamp) ELSE 0

\* The props CookMode gives YouTubePlayer for step `index` of `recipe`, with
\* the seconds the component derives from them.  A recipe's youtube_id is
\* told apart by the recipe itself.
PlayerProps(recipe, index) ==
  [videoId |-> recipe,
   start |-> SecondsOf(StepTimestampStart(index)),
   end |-> SecondsOf(StepTimestampEnd(index))]

(* ----------------------------- YouTubePlayer --------------------------- *)

\* A call on the YouTube player API.
Cmd(name, arg) == [cmd |-> name, arg |-> arg]

\* playerRef.current and loopIntervalRef.current hold at most one value:
\* <<>> is null.
NewPlayer(props) == [start |-> props.start, end |-> props.end, ready |-> FALSE]

\* The state of the page's window and of the one YouTubePlayer of CookMode.
YtInit(onLine) ==
  [onLine |-> onLine,          \* navigator.onLine
   api |-> FALSE,              \* window.YT && window.YT.Player
   scriptPending |-> FALSE,    \* an iframe_api script tag is loading
   mounted |-> FALSE,
   isOffline |-> FALSE,
   depOffline |-> FALSE,       \* isOffline at the last commit
   props |-> PlayerProps(1, 0),\* the props of the last commit
   playerRef |-> <<>>,
   loop |-> <<>>,              \* the interval of the loop monitor: [start, end]
   e2Cleanup |-> FALSE,        \* the load effect returned its cleanup
   e3Cleanup |-> FALSE,        \* the loop effect returned its cleanup
   leaked |-> 0,               \* players of unmounted instances never destroyed
   strays |-> 0,               \* intervals of the loop monitor never cleared
   cmds |-> <<>>]              \* the player API calls of the last handler

Say(c, name, arg) == [c EXCEPT !.cmds = Append(@, Cmd(name, arg))]

\* try { playerRef.current.destroy() } ...; playerRef.current = null
DestroyPlayer(c) ==
  IF c.playerRef # <<>>
  THEN [Say(c, "destroy", 0) EXCEPT !.playerRef = <<>>]
  ELSE c

\* clearInterval(loopIntervalRef.current); loopIntervalRef.current = null
ClearLoop(c) == [c EXCEPT !.loop = <<>>]

\* initPlayer without the clean-up of the existing player.
initPlayerKeepsOld(c) ==
  IF ~c.mounted \/ c.isOffline THEN c
  ELSE [Say(c, "create", c.props.start) EXCEPT !.playerRef = <<NewPlayer(c.props)>>]

\* initPlayer, called with the closure of the commit `c` describes.
\* containerRef.current is set while the component shows its container,
\* which the offline fallback does not.
initPlayer(c) ==
  IF ~c.mounted \/ c.isOffline THEN c
  ELSE [Say(DestroyPlayer(c), "create", c.props.start)
          EXCEPT !.playerRef = <<NewPlayer(c.props)>>]

\* The cleanup the load effect returns when it had to load the API script.
LoadCleanup(c) == ClearLoop(DestroyPlayer(c))

\* The body of the load effect (deps: initPlayer, isOffline).
LoadEffect(c) ==
  IF c.isOffline THEN [c EXCEPT !.e2Cleanup = FALSE]
  ELSE IF c.api THEN [initPlayer(c) EXCEPT !.e2Cleanup = FALSE]
  ELSE [c EXCEPT !.scriptPending = TRUE, !.e2Cleanup = TRUE]

\* The body of the loop monitoring effect (deps: autoLoop, startSeconds,
\* endSeconds); autoLoop is true in CookMode.
LoopEffect(c) ==
  IF c.props.end = 0 \/ c.playerRef = <<>>
  THEN [c EXCEPT !.e3Cleanup = FALSE]
  ELSE [c EXCEPT !.loop = <<[start |-> c.props.start, end |-> c.props.end]>>,
                 !.strays = Min(@ + Len(c.loop), StrayCap),
                 !.e3Cleanup = TRUE]

\* A commit in which the cleanup of the loop effect is left out.
YtUpdateKeepsLoop(c, props) ==
  LET loadChanged == props # c.props \/ c.isOffline # c.depOffline
      loopChanged == props.start # c.props.start \/ props.end # c.props.end
      c1 == IF loadChanged /\ c.e2Cleanup THEN LoadCleanup(c) ELSE c
      c3 == [c1 EXCEPT !.props = props, !.depOffline = c.isOffline]
      c4 == IF loadChanged THEN LoadEffect(c3) ELSE c3
  IN  IF loopChanged THEN LoopEffect(c4) ELSE c4

\* A commit of the mounted component with the props `props` and the state
\* isOffline of `c`: the cleanups of the effects whose deps changed, then
\* their bodies, in the order of the effects.
YtUpdate(c, props) ==
  LET loadChanged == props # c.props \/ c.isOffline # c.depOffline
      loopChanged == props.start # c.props.start \/ props.end # c.props.end
      c1 == IF loadChanged /\ c.e2Cleanup THEN LoadCleanup(c) ELSE c
      c2 == IF loopChanged /\ c1.e3Cleanup THEN ClearLoop(c1) ELSE c1
      c3 == [c2 EXCEPT !.props = props, !.depOffline = c.isOffline]
      c4 == IF loadChanged THEN LoadEffect(c3) ELSE c3
  IN  IF loopChanged THEN LoopEffect(c4) ELSE c4

\* The first commit (isOffline is false in it), then the commit that the
\* setIsOffline(!navigator.onLine) of the online-status effect causes.
YtMount(c, props) ==
  LET c0 == [c EXCEPT !.mounted = TRUE, !.isOffline = FALSE, !.depOffline = FALSE,
                      !.props = props, !.playerRef = <<>>, !.loop = <<>>]
      c1 == LoopEffect(LoadEffect(c0))
  IN  IF c.onLine THEN c1
      ELSE YtUpdate([c1 EXCEPT !.isOffline = TRUE], props)

\* Unmounting runs the cleanups the effects returned; a player still in
\* playerRef is never destroyed after it.
YtUnmount(c, playerCap) ==
  LET c1 == IF c.e2Cleanup THEN LoadCleanup(c) ELSE c
      c2 == IF c1.e3Cleanup THEN ClearLoop(c1) ELSE c1
  IN  [c2 EXCEPT !.mounted = FALSE, !.playerRef = <<>>, !.loop = <<>>,
                 !.e2Cleanup = FALSE, !.e3Cleanup = FALSE,
                 !.leaked = Min(@ + Len(c2.playerRef), playerCap),
                 !.strays = Min(@ + Len(c2.loop), StrayCap)]

\* The render CookMode causes: YouTubePlayer is shown with the current step.
YtCommit(c, shown, props, playerCap) ==
  IF shown
  THEN IF c.mounted THEN YtUpdate(c, props) ELSE YtMount(c, props)
  ELSE IF c.mounted THEN YtUnmount(c, playerCap) ELSE c

\* The callback of the loop monitor with > in place of >=.
PollCallbackStrict(c, position) ==
  IF c.playerRef # <<>> /\ c.playerRef[1].ready
  THEN LET c1 == Say(c, "getCurrentTime", 0) IN
         IF position >= 0 /\ position > c.loop[1].end
         THEN Say(c1, "seekTo", c.loop[1].start)
         ELSE c1
  ELSE c

\* The callback of the loop monitor seeking to the start when
\* getCurrentTime throws.
PollCallbackSeeksOnFailure(c, position) ==
  IF c.playerRef # <<>> /\ c.playerRef[1].ready
  THEN LET c1 == Say(c, "getCurrentTime", 0) IN
         IF position < 0 \/ position >= c.loop[1].end
         THEN Say(c1, "seekTo", c.loop[1].start)
         ELSE c1
  ELSE c

\* The callback of the loop monitor, with the position the player reports
\* (a negative `position`: getCurrentTime throws).
PollCallback(c, position) ==
  IF c.playerRef # <<>> /\ c.playerRef[1].ready
  THEN LET c1 == Say(c, "getCurrentTime", 0) IN
         IF position >= 0 /\ position >= c.loop[1].end
         THEN Say(c1, "seekTo", c.loop[1].start)
         ELSE c1
  ELSE c

\* onReady of the player in playerRef.
OnReady(c) ==
  LET c1 == [c EXCEPT !.playerRef[1].ready = TRUE] IN
    IF c.playerRef[1].start > 0 THEN Say(c1, "seekTo", c.playerRef[1].start)
    ELSE c1

\* onStateChange with ENDED, of the player in playerRef (autoLoop is true).
OnEnded(c) ==
  IF c.playerRef[1].start > 0
  THEN Say(Say(c, "seekTo", c.playerRef[1].start), "playVideo", 0)
  ELSE c

\* The replay method of the handle; a player that is not ready has no seekTo yet.
Replay(c) ==
  IF c.playerRef # <<>> /\ c.playerRef[1].ready
  THEN Say(Say(c, "seekTo", c.props.start), "playVideo", 0)
  ELSE c

ReplayThrows(c) == c.playerRef # <<>> /\ ~c.playerRef[1].ready

(* ------------------------ CookMode and VoiceControl -------------------- *)

\* MESSAGES[language][command] for the five commands.
Messages ==
  [en |-> [next |-> <<78, 101, 120, 116>>,                        \* 'Next'
           prev |-> <<80, 114, 101, 118, 105, 111, 117, 115>>,    \* 'Previous'
           repeat |-> <<82, 101, 112, 101, 97, 116>>,             \* 'Repeat'
           timer |-> <<84, 105, 109, 101, 114>>,                  \* 'Timer'
           stop |-> <<83, 116, 111, 112>>],                       \* 'Stop'
   hk |-> [next |-> <<19979, 19968, 27493>>,                      \* U+4E0B U+4E00 U+6B65
           prev |-> <<19978, 19968, 27493>>,                      \* U+4E0A U+4E00 U+6B65
           repeat |-> <<37325, 35079>>,                           \* U+91CD U+8907
           timer |-> <<35336, 26178>>,                            \* U+8A08 U+6642
           stop |-> <<20572, 27490>>]]                            \* U+505C U+6B62

\* speakFeedback with the language of the utterance fixed.
speakFeedbackEnglish(text) == [text |-> text, lang |-> "en-US"]

\* The utterance speakFeedback builds.
speakFeedback(text) ==
  [text |-> text, lang |-> IF language = "hk" THEN "zh-HK" ELSE "en-US"]

\* handleCommand with 'repeat' going back to the first step.
handleCommandRepeatRestarts(command) ==
  /\ CASE command = "next" -> nextStep
       [] command = "prev" -> prevStep
       [] command = "repeat" -> goToStep(0)
       [] OTHER -> UNCHANGED storeVars
  /\ spoken' = <<speakFeedback(Messages[language][command])>>

\* handleCommand; CookMode mounts VoiceControl without onCommand.
handleCommand(command) ==
  /\ CASE command = "next" -> nextStep
       [] command = "prev" -> prevStep
       [] OTHER -> UNCHANGED storeVars
  /\ spoken' = IF command \in {"next", "prev", "repeat", "timer", "stop"}
               THEN <<speakFeedback(Messages[language][command])>>
               ELSE <<>>

\* CookMode is on the page while the mode is 'cook' and a recipe is loaded.
CookShown(recipe, m) == m = "cook" /\ recipe # NoRecipe

CookInit == [mounted |-> FALSE, tickIntervals |-> 0, depRunning |-> FALSE]

\* The timer tick effect with a cleanup that clears nothing.
CookCommitKeepsTick(c, shown, running) ==
  LET rerun == ~c.mounted \/ ~shown \/ running # c.depRunning
  IN  IF ~rerun THEN c
      ELSE [mounted |-> shown,
            tickIntervals |-> Min(c.tickIntervals
                                    + (IF shown /\ running THEN 1 ELSE 0), CountCap),
            depRunning |-> shown /\ running]

\* The timer tick effect of CookMode (deps: isTimerRunning): its cleanup
\* clears the interval it made, its body makes one while the timer runs.
CookCommit(c, shown, running) ==
  LET had == IF c.mounted /\ c.depRunning THEN 1 ELSE 0
      rerun == ~c.mounted \/ ~shown \/ running # c.depRunning
  IN  IF ~rerun THEN c
      ELSE [mounted |-> shown,
            tickIntervals |-> c.tickIntervals - had
                               + (IF shown /\ running THEN 1 ELSE 0),
            depRunning |-> shown /\ running]

\* VoiceControl.  session is the state of the recognition object in
\* recognitionRef: 'idle', 'live' (started, results may come), 'aborted'
\* (abort() called: its error and end events are to come), 'stopping' (its
\* end event is to come).
VoiceInit ==
  [mounted |-> FALSE,
   lang |-> "en",         \* the language the recognition object was made for
   session |-> "idle",
   orphans |-> 0,         \* replaced recognition objects whose end is to come
   liveOrphans |-> 0,     \* replaced recognition objects that were not aborted
   clears |-> 0]          \* pending setTimeout callbacks of onresult

\* A cleanup of the recognition effect that drops the object as it is.
DropRecognitionNoAbort(v, orphanCap) ==
  [v EXCEPT !.session = "idle",
            !.liveOrphans = IF v.session = "live" THEN Min(@ + 1, orphanCap) ELSE @]

\* recognition.abort() in the cleanup of the recognition effect: the
\* object is dropped, and what it still has to fire comes to its handlers.
DropRecognition(v, orphanCap) ==
  [v EXCEPT !.session = "idle",
            !.orphans = IF v.session = "idle" THEN @ ELSE Min(@ + 1, orphanCap)]

\* The recognition effect (deps: setListening, language, handleCommand).
VoiceCommit(v, shown, lang, orphanCap) ==
  IF shown
  THEN IF v.mounted /\ v.lang = lang THEN v
       ELSE [DropRecognition(v, orphanCap) EXCEPT !.mounted = TRUE, !.lang = lang]
  ELSE IF v.mounted
       THEN [DropRecognition(v, orphanCap) EXCEPT !.mounted = FALSE]
       ELSE v

(* ------------------------------ the handlers --------------------------- *)

\* Players that are never destroyed are counted up to here.
PlayerCap == 1
\* The seeks of one loop monitor are counted up to here.
SeekCap == 2
\* Dropped recognition objects with events to come are counted up to here.
OrphanCap == 1
\* At most this many setTimeout callbacks of onresult are pending.
MaxClears == 1
\* getCurrentTime reports one of these positions, in seconds.
MaxPosition == 21

Positions == {5, 12, 19, 20, MaxPosition}

\* The texts of recognition results: 'NEXT', 'go back now', 'Repeat',
\* 'timer', ' STOP ', 'banana'.
ResultTexts ==
  { <<78, 69, 88, 84>>,
    <<103, 111, 32, 98, 97, 99, 107, 32, 110, 111, 119>>,
    <<82, 101, 112, 101, 97, 116>>,
    <<116, 105, 109, 101, 114>>,
    <<32, 83, 84, 79, 80, 32>>,
    <<98, 97, 110, 97, 110, 97>> }

NotCalled == "not called"

Quiet(c) == [c EXCEPT !.cmds = <<>>]

\* The render and effects a handler's state changes cause, given the state
\* the handler left VoiceControl and YouTubePlayer in.
Render(v, y) ==
  LET shown == CookShown(currentRecipe', mode') IN
    /\ cook' = CookCommit(cook, shown, isTimerRunning')
    /\ voice' = VoiceCommit(v, shown, language', OrphanCap)
    /\ yt' = YtCommit(y, shown, PlayerProps(currentRecipe', currentStepIndex'),
                      PlayerCap)

\* The loop monitor of the last commit is the one of this commit.
SameLoop == yt'.loop = yt.loop

\* What a handler other than the poll leaves of pollRun.
PollRunKept ==
  pollRun' = IF yt'.loop = <<>> \/ ~SameLoop THEN [hit |-> FALSE, seeks |-> 0]
             ELSE pollRun

\* A handler that calls the store and nothing else.
StoreCall(name, arg) ==
  /\ Render(voice, Quiet(yt))
  /\ lastOp' = Op(name, arg)
  /\ thrown' = FALSE
  /\ heard' = <<>>
  /\ matched' = NotCalled
  /\ PollRunKept

InitWith(text) ==
  /\ currentRecipe = NoRecipe
  /\ currentStepIndex = 0
  /\ mode = "ingredients"
  /\ isTimerRunning = FALSE
  /\ timerSeconds = 0
  /\ isListening = FALSE
  /\ language = "en"
  /\ cook = CookInit
  /\ voice = VoiceInit
  /\ yt = YtInit(TRUE)
  /\ lastOp = Op("init", 0)
  /\ spoken = <<>>
  /\ thrown = FALSE
  /\ heard = text
  /\ matched = NotCalled
  /\ timerRun = NoTimerRun
  /\ pollRun = [hit |-> FALSE, seeks |-> 0]

\* The page before a recipe is loaded: the store's initial state (the
\* browser's language is not Chinese and it is online), nothing mounted.
Init == InitWith(<<>>)

SetRecipe ==
  \E recipe \in Recipes :
    /\ setRecipe(recipe)
    /\ StoreCall("setRecipe", recipe)
    /\ spoken' = <<>>
    /\ UNCHANGED timerRun

ClearRecipe ==
  /\ clearRecipe
  /\ StoreCall("clearRecipe", 0)
  /\ spoken' = <<>>
  /\ UNCHANGED timerRun

SetMode ==
  \E m \in Modes :
    /\ setMode(m)
    /\ StoreCall("setMode", 0)
    /\ spoken' = <<>>
    /\ UNCHANGED timerRun

NextStep ==
  /\ nextStep
  /\ StoreCall("nextStep", 0)
  /\ spoken' = <<>>
  /\ UNCHANGED timerRun

PrevStep ==
  /\ prevStep
  /\ StoreCall("prevStep", 0)
  /\ spoken' = <<>>
  /\ UNCHANGED timerRun

GoToStep ==
  \E index \in GoToArgs :
    /\ goToStep(index)
    /\ StoreCall("goToStep", index)
    /\ spoken' = <<>>
    /\ UNCHANGED timerRun

StartTimer ==
  \E seconds \in Durations :
    /\ startTimer(seconds)
    /\ StoreCall("startTimer", seconds)
    /\ spoken' = <<>>
    /\ timerRun' = [d |-> seconds, ticks |-> 0, chimes |-> 0, clean |-> TRUE]

StopTimer ==
  /\ stopTimer
  /\ StoreCall("stopTimer", 0)
  /\ spoken' = <<>>
  /\ timerRun' = [timerRun EXCEPT !.clean = FALSE]

\* The duration_seconds of a step's timer_config that is null.
NoDuration == 0 - 1

\* The seconds the start control takes for a step without a duration.
DefaultDuration == 60

\* What the timer_config of a step with has_timer may hold.
ConfiguredDurations == {NoDuration} \cup Durations

\* A click on the start control of the current step's timer, shown while
\* the timer is not running: startTimer(duration_seconds || 60).
ClickStartTimer ==
  \E duration_seconds \in ConfiguredDurations :
    /\ cook.mounted /\ ~isTimerRunning
    /\ LET seconds == IF duration_seconds \in {NoDuration, 0}
                      THEN DefaultDuration ELSE duration_seconds
       IN /\ startTimer(seconds)
          /\ timerRun' = [d |-> seconds, ticks |-> 0, chimes |-> 0, clean |-> TRUE]
    /\ StoreCall("clickStart", duration_seconds)
    /\ spoken' = <<>>

\* A click on the stop control, shown while the timer is running.
ClickStopTimer ==
  /\ cook.mounted /\ isTimerRunning
  /\ stopTimer
  /\ StoreCall("clickStop", 0)
  /\ spoken' = <<>>
  /\ timerRun' = [timerRun EXCEPT !.clean = FALSE]

\* tickTimer, called.
Tick ==
  /\ tickTimer
  /\ StoreCall("tickTimer", 0)
  /\ timerRun' = [timerRun EXCEPT
       !.ticks = Min(@ + 1, CountCap),
       !.chimes = Min(@ + Len(spoken'), CountCap)]

TickTimer == Tick

\* The interval of CookMode's timer tick effect fires.
TimerInterval ==
  /\ cook.tickIntervals > 0
  /\ Tick

SetLanguage ==
  \E lang \in Languages :
    /\ setLanguage(lang)
    /\ StoreCall("setLanguage", 0)
    /\ spoken' = <<>>
    /\ UNCHANGED timerRun

\* A handler of VoiceControl that leaves the component as `v` and calls
\* no player.
VoiceCall(name, arg, v) ==
  /\ Render(v, Quiet(yt))
  /\ lastOp' = Op(name, arg)
  /\ thrown' = FALSE
  /\ PollRunKept
  /\ UNCHANGED timerRun

\* toggleListening that only clears the flag when listening.
ToggleListeningNoAbort ==
  /\ voice.mounted
  /\ IF isListening
     THEN /\ setListening(FALSE)
          /\ VoiceCall("toggleListening", 0, voice)
     ELSE IF voice.session = "idle"
          THEN /\ setListening(TRUE)
               /\ VoiceCall("toggleListening", 1, [voice EXCEPT !.session = "live"])
          ELSE /\ UNCHANGED storeVars
               /\ VoiceCall("toggleListening", 1, voice)
  /\ spoken' = <<>> /\ heard' = <<>> /\ matched' = NotCalled

\* toggleListening: a click on the voice button.  start() throws on an
\* object that has started and not yet fired its end, which is caught.
ToggleListening ==
  /\ voice.mounted
  /\ IF isListening
     THEN /\ setListening(FALSE)
          /\ VoiceCall("toggleListening", 0,
               [voice EXCEPT !.session = IF @ = "live" THEN "aborted" ELSE @])
     ELSE IF voice.session = "idle"
          THEN /\ setListening(TRUE)
               /\ VoiceCall("toggleListening", 1, [voice EXCEPT !.session = "live"])
          ELSE /\ UNCHANGED storeVars
               /\ VoiceCall("toggleListening", 1, voice)
  /\ spoken' = <<>> /\ heard' = <<>> /\ matched' = NotCalled

\* onresult passing an interim result to the command interpreter too.
InterimResultDispatches ==
  \E text \in ResultTexts :
    /\ voice.session = "live"
    /\ IF matchCommand(text) # NullCommand
       THEN handleCommand(matchCommand(text))
       ELSE UNCHANGED storeVars /\ spoken' = <<>>
    /\ VoiceCall("onresult", 0, voice)
    /\ heard' = text /\ matched' = NotCalled

\* recognition.onresult with an interim result: only the transcript shown
\* changes.
InterimResult ==
  \E text \in ResultTexts :
    /\ voice.session = "live"
    /\ UNCHANGED storeVars
    /\ VoiceCall("onresult", 0, voice)
    /\ spoken' = <<>> /\ heard' = text /\ matched' = NotCalled

\* onresult taking a final result that matches nothing for 'next'.
FinalResultDefaultsToNext ==
  \E text \in ResultTexts :
    /\ voice.session = "live"
    /\ voice.clears < MaxClears
    /\ IF matchCommand(text) # NullCommand
       THEN handleCommand(matchCommand(text))
       ELSE handleCommand("next")
    /\ VoiceCall("onresult", 1,
         [voice EXCEPT !.session = "stopping", !.clears = @ + 1])
    /\ heard' = text /\ matched' = matchCommand(text)

\* recognition.onresult with a final result; the recognition is not
\* continuous, so the session ends after it.
FinalResult ==
  \E text \in ResultTexts :
    /\ voice.session = "live"
    /\ voice.clears < MaxClears
    /\ IF matchCommand(text) # NullCommand
       THEN handleCommand(matchCommand(text))
       ELSE UNCHANGED storeVars /\ spoken' = <<>>
    /\ VoiceCall("onresult", 1,
         [voice EXCEPT !.session = "stopping", !.clears = @ + 1])
    /\ heard' = text /\ matched' = matchCommand(text)

\* onerror leaving the listening flag as it is.
RecognitionErrorKeepsListening ==
  /\ voice.session \in {"live", "aborted"}
  /\ UNCHANGED storeVars
  /\ VoiceCall("onerror", 0, [voice EXCEPT !.session = "stopping"])
  /\ spoken' = <<>> /\ heard' = <<>> /\ matched' = NotCalled

\* recognition.onerror
RecognitionError ==
  /\ voice.session \in {"live", "aborted"}
  /\ setListening(FALSE)
  /\ VoiceCall("onerror", 0, [voice EXCEPT !.session = "stopping"])
  /\ spoken' = <<>> /\ heard' = <<>> /\ matched' = NotCalled

\* recognition.onend
RecognitionEnd ==
  /\ voice.session # "idle"
  /\ setListening(FALSE)
  /\ VoiceCall("onend", 0, [voice EXCEPT !.session = "idle"])
  /\ spoken' = <<>> /\ heard' = <<>> /\ matched' = NotCalled

\* The end of a recognition object that the effect has replaced.
OrphanEnd ==
  /\ voice.orphans > 0
  /\ setListening(FALSE)
  /\ VoiceCall("onend", 1, [voice EXCEPT !.orphans = @ - 1])
  /\ spoken' = <<>> /\ heard' = <<>> /\ matched' = NotCalled

\* The callback onresult gave setTimeout, one second after a final result.
ClearTimeout ==
  /\ voice.clears > 0
  /\ setListening(FALSE)
  /\ VoiceCall("timeout", 0, [voice EXCEPT !.clears = @ - 1])
  /\ spoken' = <<>> /\ heard' = <<>> /\ matched' = NotCalled

\* A handler of YouTubePlayer or of the window that leaves them as `y`.
PlayerCall(name, arg, y) ==
  /\ UNCHANGED storeVars
  /\ Render(voice, y)
  /\ lastOp' = Op(name, arg)
  /\ spoken' = <<>> /\ heard' = <<>> /\ matched' = NotCalled
  /\ UNCHANGED timerRun

\* The window's offline event; handleOffline if the component is mounted.
GoOffline ==
  /\ yt.onLine
  /\ PlayerCall("offline", 0,
       [Quiet(yt) EXCEPT !.onLine = FALSE, !.isOffline = yt.mounted \/ @,
                         !.scriptPending = FALSE])
  /\ thrown' = FALSE /\ PollRunKept

\* The window's online event; handleOnline if the component is mounted.
GoOnline ==
  /\ ~yt.onLine
  /\ PlayerCall("online", 0,
       [Quiet(yt) EXCEPT !.onLine = TRUE, !.isOffline = ~yt.mounted /\ @])
  /\ thrown' = FALSE /\ PollRunKept

\* The iframe_api script has loaded: window.YT is there, and
\* window.onYouTubeIframeAPIReady, the initPlayer of the last load effect
\* that set it, is called.
ApiReady ==
  /\ yt.scriptPending /\ yt.onLine
  /\ PlayerCall("apiReady", 0,
       initPlayer([Quiet(yt) EXCEPT !.api = TRUE, !.scriptPending = FALSE]))
  /\ thrown' = FALSE /\ PollRunKept

PlayerReady ==
  /\ yt.playerRef # <<>> /\ ~yt.playerRef[1].ready
  /\ yt.onLine
  /\ PlayerCall("onReady", 0, OnReady(Quiet(yt)))
  /\ thrown' = FALSE /\ PollRunKept

PlayerEnded ==
  /\ yt.playerRef # <<>> /\ yt.playerRef[1].ready
  /\ PlayerCall("ended", 0, OnEnded(Quiet(yt)))
  /\ thrown' = FALSE /\ PollRunKept

\* onError of the player: setIsOffline(true).
PlayerError ==
  /\ yt.playerRef # <<>>
  /\ PlayerCall("onError", 0, [Quiet(yt) EXCEPT !.isOffline = TRUE])
  /\ thrown' = FALSE /\ PollRunKept

\* The interval of the loop monitor fires; the player reports `position`,
\* or getCurrentTime throws (position -1).
PollTick ==
  \E position \in Positions \cup {0 - 1} :
    /\ yt.loop # <<>>
    /\ PlayerCall("poll", position, PollCallback(Quiet(yt), position))
    /\ thrown' = FALSE
    /\ pollRun' =
         [hit |-> pollRun.hit
                    \/ (Len(yt'.cmds) > 0 /\ position >= yt.loop[1].end),
          seeks |-> Min(pollRun.seeks + Len(SelectSeq(yt'.cmds,
                          LAMBDA k : k.cmd = "seekTo")), SeekCap)]

\* A click on CookMode's replay button.
ClickReplay ==
  /\ yt.mounted
  /\ PlayerCall("replay", 0, Replay(Quiet(yt)))
  /\ thrown' = ReplayThrows(yt) /\ PollRunKept

NextStore ==
  \/ SetRecipe
  \/ ClearRecipe
  \/ NextStep
  \/ PrevStep
  \/ GoToStep
  \/ StartTimer
  \/ StopTimer
  \/ TickTimer
  \/ SetLanguage

\* The store under any sequence of calls of its actions.
SpecStore == Init /\ [][NextStore]_vars

NextPlayer ==
  \/ SetRecipe
  \/ SetMode
  \/ NextStep
  \/ PrevStep
  \/ GoOffline
  \/ GoOnline
  \/ ApiReady
  \/ PlayerReady
  \/ PlayerEnded
  \/ PlayerError
  \/ PollTick
  \/ ClickReplay

\* The recipe page with step navigation and the video of the cook view.
SpecPlayer == Init /\ [][NextPlayer]_vars

NextVoice ==
  \/ SetRecipe
  \/ SetMode
  \/ NextStep
  \/ PrevStep
  \/ SetLanguage
  \/ ToggleListening
  \/ InterimResult
  \/ FinalResult
  \/ RecognitionError
  \/ RecognitionEnd
  \/ OrphanEnd
  \/ ClearTimeout

\* The recipe page with the voice control of the cook view.
SpecVoice == Init /\ [][NextVoice]_vars

NextDispatch ==
  \/ SetRecipe
  \/ SetMode
  \/ NextStep
  \/ StartTimer
  \/ ApiReady
  \/ PlayerReady
  \/ ToggleListening
  \/ FinalResult
  \/ RecognitionEnd
  \/ ClearTimeout

\* The recipe page with a running timer, a video and spoken commands.
SpecDispatch == Init /\ [][NextDispatch]_vars

\* The texts matchCommand is applied to.
Transcripts == Phrases(MaxWords) \cup PatternTexts

InitMatch == \E text \in Transcripts : InitWith(text)

\* matchCommand applied to the text.
MatchTranscript ==
  /\ matched' = matchCommand(heard)
  /\ lastOp' = Op("matchCommand", 0)
  /\ UNCHANGED <<storeVars, compVars, spoken, thrown, heard, timerRun, pollRun>>

NextMatch == MatchTranscript

\* matchCommand on each text of Transcripts.
SpecMatch == InitMatch /\ [][NextMatch]_vars

NextOffline ==
  \/ SetRecipe
  \/ SetMode
  \/ NextStep
  \/ PrevStep
  \/ GoToStep
  \/ GoOffline
  \/ GoOnline
  \/ ApiReady
  \/ PlayerError

\* Step navigation on the recipe page while the connection comes and goes
\* and the player fails.
SpecOffline == Init /\ [][NextOffline]_vars

NextTimer ==
  \/ SetRecipe
  \/ SetMode
  \/ StartTimer
  \/ StopTimer
  \/ TimerInterval

\* The cook view's timer: its controls and its one-second interval.
SpecTimer == Init /\ [][NextTimer]_vars

NextErrors ==
  \/ SetRecipe
  \/ SetMode
  \/ StartTimer
  \/ ApiReady
  \/ ToggleListening
  \/ RecognitionError
  \/ PlayerError

\* The recipe page with failures of speech recognition and of the player.
SpecErrors == Init /\ [][NextErrors]_vars

NextControls ==
  \/ SetRecipe
  \/ SetMode
  \/ NextStep
  \/ ClickStartTimer
  \/ ClickStopTimer

\* The cook view with the controls of the step's timer.
SpecControls == Init /\ [][NextControls]_vars

\* The decimal digits of n, as text.
RECURSIVE Digits(_)
Digits(n) == IF n < 10 THEN <<48 + n>> ELSE Append(Digits(n \div 10), 48 + (n % 10))

\* The numbers in the fields of the timestamps parsed here.
FieldsBeyond == {75}
FieldValues == (0..MaxField) \cup FieldsBeyond

\* A field is written plainly or with a zero before it.
Renderings(n) == {Digits(n), <<48>> \o Digits(n)}

Fields == UNION {Renderings(n) : n \in FieldValues}

\* The timestamps "M:S" and "H:M:S" over these fields.
Timestamps ==
  {m \o <<58>> \o x : m \in Fields, x \in Fields}
    \cup {h \o <<58>> \o m \o <<58>> \o x : h \in Fields, m \in Fields, x \in Fields}

\* The end timestamps of the clips shown: '00:03', '0:01:00', none.
EndTimestamps == {<<48, 48, 58, 48, 51>>, <<48, 58, 48, 49, 58, 48, 48>>, <<>>}

InitParse == \E text \in Timestamps : InitWith(text)

\* A YouTubePlayer is mounted with the text as its startTime and one of
\* EndTimestamps as its endTime, the API being loaded.
ShowClip ==
  \E endTime \in EndTimestamps :
    /\ lastOp.op = "init"
    /\ yt' = YtMount([yt EXCEPT !.api = TRUE],
                     [videoId |-> 1, start |-> SecondsOf(heard),
                      end |-> SecondsOf(endTime)])
    /\ lastOp' = Op("showClip", endTime)
    /\ UNCHANGED <<storeVars, cook, voice, spoken, thrown, heard, matched,
                   timerRun, pollRun>>

NextParse == ShowClip

\* parseTimestamp on each text of Timestamps, in a mounted YouTubePlayer.
SpecParse == InitParse /\ [][NextParse]_vars

(* ------------------------------ claims --------------------------------- *)

\* The fields of the store other than currentStepIndex.
storeRest == <<currentRecipe, mode, isTimerRunning, timerSeconds, isListening,
               language>>

\* C1: while a recipe of N >= 1 steps is loaded, after any sequence of
\* setRecipe, nextStep, prevStep and goToStep(i), 0 <= currentStepIndex <= N-1,
\* and no operation ends with an exception.
StepIndexInRange ==
  /\ currentRecipe # NoRecipe =>
       /\ 0 <= currentStepIndex
       /\ currentStepIndex <= StepsLength(currentRecipe) - 1
  /\ ~thrown

\* goToStep was called with an index past the end of a loaded recipe.
StepIndexInRangeWitness ==
  /\ currentRecipe = MaxSteps
  /\ lastOp.op = "goToStep" /\ lastOp.arg >= StepsLength(currentRecipe)
  /\ currentStepIndex = StepsLength(currentRecipe) - 1

\* C2: nextStep() adds exactly 1 to currentStepIndex when it is below N-1, and
\* otherwise changes nothing of the store (no wraparound).
NextStepContract ==
  [][lastOp'.op = "nextStep" =>
       IF currentRecipe # NoRecipe
          /\ currentStepIndex < StepsLength(currentRecipe) - 1
       THEN currentStepIndex' = currentStepIndex + 1 /\ UNCHANGED storeRest
       ELSE UNCHANGED storeVars]_vars

\* nextStep ran on the last step of a 3-step recipe.
NextStepWitness ==
  /\ lastOp.op = "nextStep"
  /\ currentRecipe = 3 /\ currentStepIndex = 2

\* C3: prevStep() subtracts exactly 1 from currentStepIndex when it is above
\* 0, and at 0 changes nothing of the store.
PrevStepContract ==
  [][lastOp'.op = "prevStep" =>
       IF currentStepIndex > 0
       THEN currentStepIndex' = currentStepIndex - 1 /\ UNCHANGED storeRest
       ELSE UNCHANGED storeVars]_vars

\* prevStep ran and the first step of a loaded recipe is current.
PrevStepWitness ==
  /\ lastOp.op = "prevStep"
  /\ currentRecipe # NoRecipe /\ currentStepIndex = 0

\* C4: goToStep(index) sets currentStepIndex to index when 0 <= index < N and
\* changes nothing of the store for an index below 0 or at least N.
GoToStepContract ==
  [][lastOp'.op = "goToStep" =>
       IF currentRecipe # NoRecipe /\ 0 <= lastOp'.arg
          /\ lastOp'.arg < StepsLength(currentRecipe)
       THEN currentStepIndex' = lastOp'.arg /\ UNCHANGED storeRest
       ELSE UNCHANGED storeVars /\ ~thrown']_vars

\* goToStep ran with a negative index on a loaded recipe away from step 0.
GoToStepWitness ==
  /\ lastOp.op = "goToStep" /\ lastOp.arg < 0
  /\ currentRecipe # NoRecipe /\ currentStepIndex > 0

\* C6: after startTimer(D), D >= 1, once exactly D ticks have run with no stop
\* or restart in between, isTimerRunning is false and exactly one "time's up"
\* utterance has been spoken.
TimerDoneAfterDTicks ==
  (timerRun.clean /\ timerRun.d >= 1 /\ timerRun.ticks = timerRun.d) =>
    (~isTimerRunning /\ timerRun.chimes = 1)

\* C5: dispatching the repeat command never changes currentStepIndex.
RepeatKeepsStepIndex ==
  [][matched' = "repeat" => currentStepIndex' = currentStepIndex]_vars

\* 'repeat' was dispatched while a step after the first was current.
RepeatWitness ==
  /\ lastOp = Op("onresult", 1) /\ matched = "repeat"
  /\ Len(spoken) = 1
  /\ currentStepIndex > 0

\* The window of the current step, in seconds.
CurrentWindow == PlayerProps(currentRecipe, currentStepIndex)

\* C7, as claimed: over the polls of one step window the loop monitor issues
\* no seek while the reports are below end and exactly one seek, at the
\* first report >= end.
LoopSeeksOnce ==
  yt.loop # <<>> => pollRun.seeks = (IF pollRun.hit THEN 1 ELSE 0)

\* C7, amended: a poll that gets a position from a ready player issues no
\* seek at a report below the end of the current step's window and one seek to
\* its start at every report >= end, so twice for the reports 20 and 21 in
\* the window [10, 20].
LoopSeeksAtEveryReportPastEnd ==
  lastOp.op = "poll" =>
    /\ yt.loop = <<[start |-> CurrentWindow.start, end |-> CurrentWindow.end]>>
    /\ yt.cmds =
         IF yt.playerRef = <<>> \/ ~yt.playerRef[1].ready THEN <<>>
         ELSE IF lastOp.arg >= 0 /\ lastOp.arg >= CurrentWindow.end
              THEN <<Cmd("getCurrentTime", 0), Cmd("seekTo", CurrentWindow.start)>>
              ELSE <<Cmd("getCurrentTime", 0)>>

\* The second seek of one loop monitor of the window [10, 20], at the report 21.
LoopSeeksWitness ==
  /\ lastOp = Op("poll", 21)
  /\ CurrentWindow.start = 10 /\ CurrentWindow.end = 20
  /\ pollRun.seeks = 2
  /\ yt.cmds = <<Cmd("getCurrentTime", 0), Cmd("seekTo", 10)>>

\* C8: while the window is offline and the component has taken the offline
\* event, the loop poll, the ended handler and replay() call no player.
SuspendedWhileOffline ==
  (yt.mounted /\ yt.isOffline /\ ~yt.onLine
     /\ lastOp.op \in {"poll", "ended", "replay"}) => yt.cmds = <<>>

\* The commands, in the order the claim gives.
ClaimedOrder == <<"next", "prev", "repeat", "timer", "stop">>

\* pattern occurs in text at some position.
OccursIn(pattern, text) ==
  \E at \in 1..(Len(text) + 1) :
    \A j \in 1..Len(pattern) :
      at + j - 1 <= Len(text) /\ text[at + j - 1] = pattern[j]

\* The positions in ClaimedOrder of the commands with a phrase in the
\* lower-cased, trimmed text.
CommandsFound(text) ==
  {c \in 1..Len(ClaimedOrder) :
     \E k \in 1..Len(CommandPatterns[ClaimedOrder[c]]) :
       OccursIn(CommandPatterns[ClaimedOrder[c]][k], Trim(ToLowerCase(text)))}

\* C9: matchCommand(text) is the first command, in the order next, prev,
\* repeat, timer, stop, with a phrase occurring in the lower-cased, trimmed
\* text, and null when there is none; 'please go next' gives next,
\* 'go back now' gives prev, 'banana' gives null.
MatchCommandFirstInOrder ==
  lastOp.op = "matchCommand" =>
    /\ matched =
         IF CommandsFound(heard) = {} THEN NullCommand
         ELSE ClaimedOrder[CHOOSE c \in CommandsFound(heard) :
                             \A d \in CommandsFound(heard) : c <= d]
    /\ heard = <<112, 108, 101, 97, 115, 101, 32, 103, 111, 32, 110, 101, 120, 116>>
         => matched = "next"
    /\ heard = <<103, 111, 32, 98, 97, 99, 107, 32, 110, 111, 119>>
         => matched = "prev"
    /\ heard = <<98, 97, 110, 97, 110, 97>> => matched = NullCommand

\* matchCommand was applied to 'backnext', where the phrase of the later
\* command comes first in the text.
MatchCommandWitness ==
  /\ lastOp.op = "matchCommand"
  /\ heard = <<98, 97, 99, 107, 110, 101, 120, 116>>
  /\ matched = "next"

\* C10: a final result whose text matches no phrase changes none of
\* currentStepIndex, isTimerRunning and timerSeconds, speaks nothing, calls
\* no player and throws nothing.
UnmatchedResultIgnored ==
  [][(lastOp' = Op("onresult", 1) /\ matched' = NullCommand) =>
       /\ UNCHANGED <<currentStepIndex, isTimerRunning, timerSeconds>>
       /\ spoken' = <<>>
       /\ yt'.cmds = <<>>
       /\ ~thrown']_vars

\* 'banana' came as a final result with a timer running, a player made and
\* a step after the first current.
UnmatchedResultWitness ==
  /\ lastOp = Op("onresult", 1) /\ matched = NullCommand
  /\ heard = <<98, 97, 110, 97, 110, 97>>
  /\ isTimerRunning /\ yt.playerRef # <<>> /\ currentStepIndex > 0

\* C11: dispatching the repeat command while a player exists makes the
\* player seek to the start of the current step and play.
RepeatReplaysStep ==
  (lastOp = Op("onresult", 1) /\ matched = "repeat"
     /\ yt.playerRef # <<>> /\ yt.playerRef[1].ready) =>
    yt.cmds = <<Cmd("seekTo", CurrentWindow.start), Cmd("playVideo", 0)>>

\* C12: dispatching the timer command starts the timer: afterwards
\* isTimerRunning is true (with timerSeconds the duration of the step).
TimerCommandStartsTimer ==
  [][(lastOp' = Op("onresult", 1) /\ matched' = "timer") => isTimerRunning']_vars

\* C13: dispatching the stop command while the timer is running stops it:
\* afterwards isTimerRunning is false.
StopCommandStopsTimer ==
  [][(lastOp' = Op("onresult", 1) /\ matched' = "stop" /\ isTimerRunning)
       => ~isTimerRunning']_vars

\* C14: after setRecipe(recipe), from any state, currentStepIndex = 0,
\* isTimerRunning = false and isListening = false.
SetRecipeResetsPlayback ==
  lastOp.op = "setRecipe" =>
    (currentStepIndex = 0 /\ ~isTimerRunning /\ ~isListening)

\* C15: on the ended notification of the player of the current step, whose
\* start timestamp is defined (00:00 included), with looping on, the
\* player is told to seek to the start of the step and then to play.
EndedLoopsToStart ==
  (lastOp.op = "ended" /\ yt.playerRef # <<>>
     /\ yt.playerRef[1].start = CurrentWindow.start
     /\ StepTimestampStart(currentStepIndex) # <<>>) =>
    yt.cmds = <<Cmd("seekTo", CurrentWindow.start), Cmd("playVideo", 0)>>

\* The language tag of an utterance in the locale `lang` of the store.
LocaleTag(lang) == IF lang = "hk" THEN "zh-HK" ELSE "en-US"

\* C16: the notification spoken when the running timer is found at zero has
\* the language of the store's current language.
TimesUpInActiveLocale ==
  (lastOp.op = "tickTimer" /\ spoken # <<>>) =>
    spoken[1].lang = LocaleTag(language)

\* C17: startTimer(s) sets timerSeconds = s and isTimerRunning = true,
\* running or not before; stopTimer sets isTimerRunning = false and leaves
\* timerSeconds and every other field as they were.
TimerStartStopFrame ==
  [][/\ lastOp'.op = "startTimer" =>
          (timerSeconds' = lastOp'.arg /\ isTimerRunning')
     /\ lastOp'.op = "stopTimer" =>
          /\ ~isTimerRunning'
          /\ UNCHANGED <<currentRecipe, currentStepIndex, mode, timerSeconds,
                         isListening, language>>]_vars

\* stopTimer was called in the middle of a countdown, after a tick.
TimerStartStopWitness ==
  /\ lastOp.op = "stopTimer"
  /\ ~isTimerRunning /\ timerSeconds > 0 /\ timerRun.ticks > 0

\* The five commands.
Commands == {"next", "prev", "repeat", "timer", "stop"}

\* C18: each dispatched command among next, prev, repeat, timer and stop
\* gives exactly one spoken readback, with the text and the language of the
\* active locale, and the step the command moves to is set by the same
\* handler run.
CommandReadback ==
  [][(lastOp' = Op("onresult", 1) /\ matched' \in Commands) =>
       /\ language' = language
       /\ spoken' = <<[text |-> Messages[language][matched'],
                       lang |-> LocaleTag(language)]>>
       /\ matched' = "next" =>
            currentStepIndex' =
              IF currentStepIndex < StepsLength(currentRecipe) - 1
              THEN currentStepIndex + 1 ELSE currentStepIndex
       /\ matched' = "prev" =>
            currentStepIndex' =
              IF currentStepIndex > 0 THEN currentStepIndex - 1
              ELSE currentStepIndex]_vars

\* 'NEXT' was dispatched in the locale hk: the readback is U+4E0B U+4E00
\* U+6B65 in zh-HK and the second step is current.
CommandReadbackWitness ==
  /\ lastOp = Op("onresult", 1) /\ matched = "next"
  /\ language = "hk"
  /\ spoken = <<[text |-> <<19979, 19968, 27493>>, lang |-> "zh-HK"]>>
  /\ currentStepIndex = 1

\* C19: an interim result, whatever its text, is not matched against the
\* commands and changes none of currentStepIndex, isTimerRunning and
\* timerSeconds; nothing is spoken.
InterimResultIgnored ==
  [][lastOp' = Op("onresult", 0) =>
       /\ matched' = NotCalled
       /\ spoken' = <<>>
       /\ UNCHANGED <<currentStepIndex, isTimerRunning, timerSeconds>>]_vars

\* The interim result 'NEXT' came on the first of several steps.
InterimResultWitness ==
  /\ lastOp = Op("onresult", 0)
  /\ heard = <<78, 69, 88, 84>>
  /\ currentRecipe >= 2 /\ currentStepIndex = 0

\* C20: after the window went offline and is online again, with the API
\* loaded and the recipe not reloaded, isOffline is false, a player of the
\* current step's window exists again and the loop monitor of a step with
\* an end is polling it.
RecoversAfterOnline ==
  (lastOp.op = "online" /\ yt.mounted /\ yt.api) =>
    /\ ~yt.isOffline
    /\ yt.playerRef = <<NewPlayer(CurrentWindow)>>
    /\ CurrentWindow.end > 0 =>
         yt.loop = <<[start |-> CurrentWindow.start, end |-> CurrentWindow.end]>>

\* The seconds a text "M:S" or "H:M:S" denotes: its fields, read as
\* decimal numbers, added up by 60 and 3600.
DenotedSeconds(text) ==
  {p[1] * 60 + p[2] :
     p \in {q \in FieldValues \X FieldValues :
              \E a \in Renderings(q[1]), b \in Renderings(q[2]) :
                text = a \o <<58>> \o b}}
  \cup
  {p[1] * 3600 + p[2] * 60 + p[3] :
     p \in {q \in FieldValues \X FieldValues \X FieldValues :
              \E a \in Renderings(q[1]), b \in Renderings(q[2]),
                 c \in Renderings(q[3]) :
                text = a \o <<58>> \o b \o <<58>> \o c}}

\* C21: parseTimestamp maps "MM:SS" to M*60+S and "HH:MM:SS" to
\* H*3600+M*60+S, and these seconds are the start and end of the player and
\* of the loop monitor.
ParsedSecondsUsed ==
  lastOp.op = "showClip" =>
    /\ DenotedSeconds(heard) # {}
    /\ \A from \in DenotedSeconds(heard) :
         /\ parseTimestamp(heard) = from
         /\ yt.playerRef # <<>> /\ yt.playerRef[1].start = from
         /\ \A to \in DenotedSeconds(lastOp.arg) :
              /\ yt.playerRef[1].end = to
              /\ yt.loop = <<[start |-> from, end |-> to]>>

\* The clip from '1:02:03' to '0:01:00' is shown: a player from 3723 to 60.
ParsedSecondsWitness ==
  /\ lastOp.op = "showClip"
  /\ heard = <<49, 58, 48, 50, 58, 48, 51>>
  /\ lastOp.arg = <<48, 58, 48, 49, 58, 48, 48>>
  /\ yt.playerRef # <<>> /\ yt.playerRef[1].start = 3723
  /\ yt.loop = <<[start |-> 3723, end |-> 60]>>

\* C22: while the window is offline or the video is in its offline state
\* (after an offline event or a player error), nextStep, prevStep and
\* goToStep change currentStepIndex as they do online, and throw nothing.
NavigationWhileOffline ==
  [][(~yt.onLine \/ yt.isOffline) =>
       /\ lastOp'.op = "nextStep" =>
            currentStepIndex' =
              IF currentRecipe # NoRecipe
                 /\ currentStepIndex < StepsLength(currentRecipe) - 1
              THEN currentStepIndex + 1 ELSE currentStepIndex
       /\ lastOp'.op = "prevStep" =>
            currentStepIndex' =
              IF currentStepIndex > 0 THEN currentStepIndex - 1
              ELSE currentStepIndex
       /\ lastOp'.op = "goToStep" =>
            currentStepIndex' =
              IF currentRecipe # NoRecipe /\ 0 <= lastOp'.arg
                 /\ lastOp'.arg < StepsLength(currentRecipe)
              THEN lastOp'.arg ELSE currentStepIndex
       /\ lastOp'.op \in {"nextStep", "prevStep", "goToStep"} => ~thrown']_vars

\* nextStep moved to the second step while the cook view's video was in its
\* offline state, the window being offline.
NavigationWhileOfflineWitness ==
  /\ lastOp.op = "nextStep" /\ currentStepIndex = 1
  /\ yt.mounted /\ yt.isOffline /\ ~yt.onLine

\* C23: whenever a player exists and the current step has an end timestamp
\* (looping is on in the cook view), a position poll is scheduled for that
\* step, also when the API loads after the mount and after a player is
\* made again.
PollScheduledWithPlayer ==
  (yt.mounted /\ yt.playerRef # <<>> /\ CurrentWindow.end > 0) =>
    yt.loop = <<[start |-> CurrentWindow.start, end |-> CurrentWindow.end]>>

\* C24: at most one position poll is scheduled at any time, it has the
\* start and end of the current step, and no poll of a step left behind is
\* still scheduled.
OnePollOfCurrentStep ==
  /\ Len(yt.loop) + yt.strays <= 1
  /\ yt.strays = 0
  /\ yt.loop # <<>> =>
       /\ yt.mounted
       /\ yt.loop[1] = [start |-> CurrentWindow.start, end |-> CurrentWindow.end]

\* The step changed from one with a poll to the next: the poll is the one
\* of the window [10, 20].
OnePollWitness ==
  /\ lastOp.op = "nextStep" /\ currentStepIndex = 1
  /\ yt.loop = <<[start |-> 10, end |-> 20]>>
  /\ yt.strays = 0

\* The calls `name` among the player API calls of the last handler.
Calls(cmds, name) == Len(SelectSeq(cmds, LAMBDA k : k.cmd = name))

\* C25: after a step change, online with the API loaded, the player of the
\* step left has been destroyed and one player exists, made with the start
\* and end of the new step; a player is never replaced without being
\* destroyed.
StepChangeRemakesPlayer ==
  [][(yt.mounted /\ yt'.mounted) =>
       /\ Len(yt'.playerRef) = Len(yt.playerRef) + Calls(yt'.cmds, "create")
                                 - Calls(yt'.cmds, "destroy")
       /\ (currentStepIndex' # currentStepIndex
             /\ yt.api /\ yt.onLine /\ ~yt.isOffline) =>
            /\ yt'.playerRef =
                 <<NewPlayer(PlayerProps(currentRecipe', currentStepIndex'))>>
            /\ Calls(yt'.cmds, "create") = 1
            /\ Calls(yt'.cmds, "destroy") = Len(yt.playerRef)]_vars

\* nextStep went to the second step: the player of the first was destroyed
\* and one of the window [10, 20] made.
StepChangeWitness ==
  /\ lastOp.op = "nextStep" /\ currentStepIndex = 1
  /\ yt.cmds = <<Cmd("destroy", 0), Cmd("create", 10)>>
  /\ yt.playerRef = <<[start |-> 10, end |-> 20, ready |-> FALSE]>>

\* C26: a one-second tick interval exists only while isTimerRunning is true
\* and the cook view is on the page, and there is never more than one.
TickOnlyWhileRunning ==
  /\ cook.tickIntervals <= 1
  /\ cook.tickIntervals = 1 =>
       (isTimerRunning /\ cook.mounted /\ CookShown(currentRecipe, mode))

\* The tick that found the counter at zero ended the countdown in the cook
\* view: no interval is left.
TickCancelledWitness ==
  /\ lastOp.op = "tickTimer" /\ Len(spoken) = 1
  /\ ~isTimerRunning /\ cook.mounted
  /\ cook.tickIntervals = 0

\* C27: toggleListening while isListening is true aborts the live
\* recognition session and sets isListening = false, and a session that is
\* not live dispatches no command.
StopListeningAborts ==
  [][/\ (lastOp'.op = "toggleListening" /\ isListening) =>
          (~isListening' /\ voice'.session # "live")
     /\ voice.session # "live" => matched' = NotCalled]_vars

\* The voice button was pressed during a live session: it is aborted.
StopListeningWitness ==
  /\ lastOp = Op("toggleListening", 0)
  /\ voice.session = "aborted" /\ ~isListening

\* The recognition sessions that are live.
LiveSessions ==
  (IF voice.session = "live" THEN 1 ELSE 0) + voice.liveOrphans

\* C28: at most one speech recognition session is live at any time.
OneLiveSession == LiveSessions <= 1

\* The language changed during a live session and a session was started
\* in the new language: the one before is aborted, its end still to come.
OneLiveSessionWitness ==
  /\ voice.session = "live" /\ voice.lang = "hk"
  /\ voice.orphans = 1

\* C29: a speech recognition error sets isListening = false and a player
\* error puts the video in its offline state; neither changes
\* currentStepIndex, isTimerRunning or timerSeconds, and neither throws.
ErrorsDisableSubsystem ==
  [][/\ lastOp'.op = "onerror" => ~isListening'
     /\ lastOp'.op = "onError" => yt'.isOffline
     /\ lastOp'.op \in {"onerror", "onError"} =>
          /\ UNCHANGED <<currentStepIndex, isTimerRunning, timerSeconds>>
          /\ ~thrown']_vars

\* The player failed while online, with the timer running at 2 seconds.
PlayerErrorWitness ==
  /\ lastOp.op = "onError"
  /\ yt.isOffline /\ yt.onLine
  /\ isTimerRunning /\ timerSeconds = 2

\* C30: the start control of the step's timer starts the timer with the
\* step's duration_seconds, and with 60 when the step has none: afterwards
\* timerSeconds is that number and isTimerRunning is true.
StartControlUsesDuration ==
  lastOp.op = "clickStart" =>
    /\ isTimerRunning
    /\ timerSeconds = IF lastOp.arg = NoDuration THEN DefaultDuration
                      ELSE lastOp.arg

\* C31: timerSeconds is an integer >= 0 in every reachable state: tickTimer
\* never takes the counter below 0.
TimerSecondsNonNegative == timerSeconds \in Nat

\* A tick came with the counter at zero, after the one that brought it there.
TimerSecondsWitness ==
  /\ lastOp.op = "tickTimer" /\ timerSeconds = 0
  /\ timerRun.d >= 1 /\ timerRun.ticks > timerRun.d

\* C32: nextStep, prevStep and goToStep leave isTimerRunning and
\* timerSeconds unchanged, whether or not the step changes.
NavigationKeepsTimer ==
  [][lastOp'.op \in {"nextStep", "prevStep", "goToStep"} =>
       UNCHANGED <<isTimerRunning, timerSeconds>>]_vars

\* goToStep moved to a later step while the timer was counting.
NavigationKeepsTimerWitness ==
  /\ lastOp.op = "goToStep" /\ lastOp.arg = currentStepIndex
  /\ currentStepIndex > 0
  /\ isTimerRunning /\ timerSeconds > 0

\* C33: replay(), when a player exists, issues a seek to the start of the
\* current step followed by play and raises nothing; when no player
\* exists it does nothing.
ReplaySeeksToStart ==
  lastOp.op = "replay" =>
    /\ ~thrown
    /\ yt.cmds = IF yt.playerRef # <<>>
                 THEN <<Cmd("seekTo", CurrentWindow.start), Cmd("playVideo", 0)>>
                 ELSE <<>>

\* C34: a poll whose position sample fails (getCurrentTime throws, or the
\* player is not ready or absent) issues no seek, raises no error and leaves
\* the poll scheduled.
FailedSampleSkipped ==
  [][(/\ lastOp'.op = "poll"
      /\ \/ lastOp'.arg < 0
         \/ yt.playerRef = <<>>
         \/ ~yt.playerRef[1].ready)
       => /\ Calls(yt'.cmds, "seekTo") = 0
          /\ ~thrown'
          /\ yt'.loop = yt.loop /\ yt'.loop # <<>>]_vars

\* getCurrentTime of a ready player threw in a poll.
FailedSampleWitness ==
  /\ lastOp = Op("poll", 0 - 1)
  /\ yt.cmds = <<Cmd("getCurrentTime", 0)>>
  /\ yt.loop # <<>>

\* C35: whenever a recognition session is live, isListening is true.
LiveSessionListening == voice.session = "live" => isListening

\* C36: whenever isTimerRunning is true a one-second tick is scheduled, in
\* every view mode.
TickScheduledWhileRunning == isTimerRunning => cook.tickIntervals >= 1

\* C37: once the video controller is unmounted, no player of it is left
\* undestroyed and no poll of it is left scheduled.
NothingOutlivesController ==
  ~yt.mounted => (yt.leaked = 0 /\ yt.strays = 0 /\ yt.loop = <<>>)

\* C38: between two startTimer calls at most one "time's up" notification is
\* spoken; it is spoken by a tick of a timer that runs and was not stopped
\* since it was started, so none for a timer stopped before its end and
\* none by the ticks after the end.
OneChimePerTimer ==
  [][/\ timerRun'.chimes <= 1
     /\ (lastOp'.op = "tickTimer" /\ spoken' # <<>>) =>
          /\ isTimerRunning /\ ~isTimerRunning'
          /\ timerRun.clean /\ timerRun.chimes = 0]_vars

\* A tick after the end of a timer of one second: nothing more is spoken.
OneChimeWitness ==
  /\ lastOp.op = "tickTimer" /\ spoken = <<>>
  /\ timerRun.d = 1 /\ timerRun.ticks = 3 /\ timerRun.chimes = 1

\* The store and what has been spoken, as a value.
StoreNow ==
  [recipe |-> currentRecipe, index |-> currentStepIndex, mode |-> mode,
   running |-> isTimerRunning, seconds |-> timerSeconds,
   listening |-> isListening, language |-> language, said |-> <<>>]

StoreNext ==
  [recipe |-> currentRecipe', index |-> currentStepIndex', mode |-> mode',
   running |-> isTimerRunning', seconds |-> timerSeconds',
   listening |-> isListening', language |-> language', said |-> spoken']

\* The store after tickTimer.
AfterTick(s) ==
  IF s.running /\ s.seconds > 0 THEN [s EXCEPT !.seconds = @ - 1]
  ELSE IF s.running /\ s.seconds = 0
       THEN [s EXCEPT !.running = FALSE, !.said = Append(@, TimesUpUtterance)]
       ELSE s

\* The store after nextStep, prevStep or goToStep(index).
AfterNavigation(s, name, index) ==
  CASE name = "nextStep" ->
         IF s.recipe # NoRecipe /\ s.index < StepsLength(s.recipe) - 1
         THEN [s EXCEPT !.index = @ + 1] ELSE s
    [] name = "prevStep" ->
         IF s.index > 0 THEN [s EXCEPT !.index = @ - 1] ELSE s
    [] name = "goToStep" ->
         IF s.recipe # NoRecipe /\ index >= 0 /\ index < StepsLength(s.recipe)
         THEN [s EXCEPT !.index = index] ELSE s

Navigations == {"nextStep", "prevStep", "goToStep"}

\* C39: from any reachable state, tickTimer followed by nextStep, prevStep
\* or goToStep(i) gives the same store and the same notifications as the
\* navigation followed by tickTimer (the operations being those of the
\* store).
TickCommutesWithNavigation ==
  /\ [](\A name \in Navigations, index \in GoToArgs :
          AfterNavigation(AfterTick(StoreNow), name, index)
            = AfterTick(AfterNavigation(StoreNow, name, index)))
  /\ [][/\ lastOp'.op = "tickTimer" => StoreNext = AfterTick(StoreNow)
        /\ lastOp'.op \in Navigations =>
             StoreNext = AfterNavigation(StoreNow, lastOp'.op, lastOp'.arg)]_vars

\* nextStep moved to the second step when the next tick is the one that
\* ends the timer.
TickCommutesWitness ==
  /\ lastOp.op = "nextStep" /\ currentStepIndex = 1
  /\ isTimerRunning /\ timerSeconds = 0

\* C40: while no recipe is loaded currentStepIndex is 0, and nextStep,
\* prevStep and goToStep with no recipe loaded change nothing.
NoRecipeIndexZero ==
  /\ [](currentRecipe = NoRecipe => currentStepIndex = 0)
  /\ [][(currentRecipe = NoRecipe /\ lastOp'.op \in Navigations)
          => UNCHANGED storeVars]_vars

\* prevStep was called after clearRecipe, with no recipe loaded.
NoRecipeWitness ==
  /\ lastOp.op = "prevStep"
  /\ currentRecipe = NoRecipe /\ currentStepIndex = 0

====
